---- MODULE Spec2Model ----
(***************************************************************************)
(* Model of app.py: the three function tools that write a booking          *)
(* (save_appointment to the Sanity document store, send_doctor_request to  *)
(* the webhook, confirm_patient to appointments.json), the doctor          *)
(* directory of get_doctors, and the booking workflow that the agent's     *)
(* instructions prescribe over these tools.                                *)
(*                                                                         *)
(* Spec       : the tools called one at a time, in any order, with any     *)
(*              arguments and any outcome of each network or file          *)
(*              operation.                                                 *)
(* SpecAgent  : the tools called by the agent following its instructions.  *)
(* SpecChat   : the Streamlit script run once per user input.              *)
(* SpecRace   : two sessions whose tool calls overlap, each call taken one *)
(*              network or file operation at a time.                       *)
(* SpecDirectory : get_doctors called between calls of the other tools,   *)
(*              by callers that change the mapping they were given.        *)
(***************************************************************************)
EXTENDS Integers, Sequences, FiniteSets, TLC

VARIABLES
    sanity,             \* documents of type "appointment" in the Sanity dataset, in creation order
    appointments_json,  \* the file "appointments.json"
    last,               \* the tool call made last: arguments, outbound operations, outcome
    local_calls,        \* the confirm_patient calls made so far
    session,            \* the agent's view of the booking being gathered
    attempt,            \* the tool calls of the agent's current booking attempt
    history,            \* st.session_state.history of one browser session
    turn,               \* the script run made for the last user input
    handed,             \* the mapping the last get_doctors call returned, as its caller holds it
    running             \* the tool call each of two concurrent sessions is in the middle of

vars == <<sanity, appointments_json, last, local_calls, session, attempt,
          history, turn, handed, running>>

\* what the tools called one at a time and the agent's workflow leave alone
elsewhere == <<history, turn, handed, running>>

----------------------------------------------------------------------------
(* Bounds of the model *)

\* tool calls are explored while the two stores together hold fewer records
MaxRecords == 2

----------------------------------------------------------------------------
(* Input domains *)

\* the people who book: patient name and email
Patients == { <<"Ali", "ali@example.com">>, <<"Sara", "sara@example.com">> }

Doctors == {"Dr. Khan", "Dr. Ahmed"}

\* calendar dates, each with the weekday it falls on
Dates == {"2025-07-02", "2025-07-05"}

Weekday(date) ==
    CASE date = "2025-07-02" -> "Wednesday"
      [] date = "2025-07-05" -> "Saturday"
      [] OTHER -> ""

Times == {"11:00 AM", "3:00 PM"}

\* a doctor name the directory does not have
UnknownDoctor == "Dr. Who"

\* slots the tools are called with in Spec: the first, and one differing from
\* it in the doctor only, one in the date only, one in the time only
Slots ==
    { <<"Dr. Khan", "2025-07-02", "11:00 AM">>,
      <<"Dr. Ahmed", "2025-07-02", "11:00 AM">>,
      <<"Dr. Khan", "2025-07-05", "11:00 AM">>,
      <<"Dr. Khan", "2025-07-02", "3:00 PM">> }

----------------------------------------------------------------------------
(* HTTP: requests.post either returns a response with a status code or raises *)

StatusOK == 200

\* the status codes a server answers with here
StatusCodes == {StatusOK, 500}

Response(code) == [raised |-> FALSE, status_code |-> code]

ConnectionError == [raised |-> TRUE, status_code |-> 0]

HttpOutcomes == {Response(c) : c \in StatusCodes} \cup {ConnectionError}

\* str(response.status_code) inside the f-string
StatusText(code) ==
    CASE code = 200 -> "200"
      [] code = 500 -> "500"
      [] OTHER -> "?"

\* one outbound request of a tool call, as recorded in last.ops
Op(endpoint, outcome) == [endpoint |-> endpoint, outcome |-> outcome]

----------------------------------------------------------------------------
(* Result strings of the tools: the fixed text and the values formatted in  *)

Msg(text, args) == [text |-> text, args |-> args]

SlotBookedMsg == Msg("Sorry, this time slot is already booked!", <<>>)

SanitySavedMsg == Msg("Appointment saved to Sanity.", <<>>)

SanityFailedMsg == Msg("Sanity save failed.", <<>>)

WebhookOkMsg == Msg("Doctor notified via webhook!", <<>>)

WebhookFailedMsg(code) == Msg("Webhook failed", <<StatusText(code)>>)

WebhookErrorMsg == Msg("Webhook error", <<"ConnectionError">>)

DoctorBookedMsg == Msg("Doctor already booked at that time.", <<>>)

ConfirmedMsg(patient_name, doctor_name, date, time) ==
    Msg("Appointment confirmed", <<patient_name, doctor_name, date, time>>)

ConfirmFailedMsg(e) == Msg("Failed to confirm appointment", <<e>>)

NoMsg == Msg("", <<>>)

\* a tool call that returned `result`, or raised (result = NoMsg), with the
\* two stores as they were when it was made
Call(tool, args, ops, raised, result) ==
    [tool |-> tool, args |-> args, ops |-> ops, raised |-> raised, result |-> result,
     before |-> [sanity |-> sanity, appointments_json |-> appointments_json]]

NoCall ==
    [tool |-> "", args |-> <<>>, ops |-> <<>>, raised |-> FALSE, result |-> NoMsg,
     before |-> [sanity |-> <<>>, appointments_json |-> [exists |-> FALSE, valid |-> FALSE, data |-> <<>>]]]

----------------------------------------------------------------------------
(* The Sanity dataset as the tools see it through its two endpoints *)

\* the document the create mutation carries
AppointmentDoc(patientName, email, doctorName, date, time) ==
    [patientName |-> patientName, email |-> email, doctorName |-> doctorName,
     date |-> date, time |-> time, status |-> "pending"]

\* *[_type == "appointment" && doctorName == $doctorName && date == $date && time == $time]
QueryMatches(docs, doctorName, date, time) ==
    SelectSeq(docs, LAMBDA d : d.doctorName = doctorName /\ d.date = date /\ d.time = time)

\* ...[0]: the "result" of the response body, <<>> standing for null
QueryResult(docs, doctorName, date, time) ==
    LET m == QueryMatches(docs, doctorName, date, time)
    IN  IF m = <<>> THEN <<>> ELSE <<Head(m)>>

\* a mutate request that creates the document only when the dataset has
\* none for its doctor, date and time
MutatedIfFreeMutant(docs, doc, response) ==
    IF /\ ~response.raised
       /\ response.status_code = StatusOK
       /\ QueryMatches(docs, doc.doctorName, doc.date, doc.time) = <<>>
    THEN Append(docs, doc)
    ELSE docs

\* the dataset after a mutate request the store answered with `response`
Mutated(docs, doc, response) ==
    IF ~response.raised /\ response.status_code = StatusOK THEN Append(docs, doc) ELSE docs

----------------------------------------------------------------------------
(* save_appointment *)

\* the conflict check with the date missing from the query parameters
SlotIsBookedMutant(check, docs, doctorName, date, time) ==
    /\ check.status_code = StatusOK
    /\ QueryResult(docs, doctorName, "", time) # <<>>

\* the conflict check with the status code of the answer not looked at
SlotIsBookedAnyStatusMutant(check, docs, doctorName, date, time) ==
    QueryResult(docs, doctorName, date, time) # <<>>

\* check.status_code == 200 and check.json().get("result")
SlotIsBooked(check, docs, doctorName, date, time) ==
    /\ check.status_code = StatusOK
    /\ QueryResult(docs, doctorName, date, time) # <<>>

\* the return statement after the mutate request
SaveResult(response) ==
    IF response.status_code = StatusOK THEN SanitySavedMsg ELSE SanityFailedMsg

save_appointment(patientName, email, doctorName, date, time, check, response) ==
    LET args == <<patientName, email, doctorName, date, time>>
        q    == Op("query", check)
        m    == Op("mutate", response)
    IN  /\ UNCHANGED <<appointments_json, local_calls>>
        /\ IF check.raised
           THEN \* requests.post raises: nothing catches it
                /\ last' = Call("save_appointment", args, <<q>>, TRUE, NoMsg)
                /\ UNCHANGED sanity
           ELSE IF SlotIsBooked(check, sanity, doctorName, date, time)
           THEN /\ last' = Call("save_appointment", args, <<q>>, FALSE, SlotBookedMsg)
                /\ UNCHANGED sanity
           ELSE /\ sanity' = Mutated(sanity,
                                     AppointmentDoc(patientName, email, doctorName, date, time),
                                     response)
                /\ IF response.raised
                   THEN last' = Call("save_appointment", args, <<q, m>>, TRUE, NoMsg)
                   ELSE last' = Call("save_appointment", args, <<q, m>>, FALSE,
                                     SaveResult(response))

----------------------------------------------------------------------------
(* send_doctor_request *)

\* the return with the status code not looked at
NotifyResultMutant(response) ==
    IF response.raised THEN WebhookErrorMsg ELSE WebhookOkMsg

\* the try block's return, or the except clause's
NotifyResult(response) ==
    IF response.raised THEN WebhookErrorMsg
    ELSE IF response.status_code = StatusOK THEN WebhookOkMsg
    ELSE WebhookFailedMsg(response.status_code)

send_doctor_request(patient_name, doctor_name, date, time, response) ==
    /\ last' = Call("send_doctor_request", <<patient_name, doctor_name, date, time>>,
                    <<Op("webhook", response)>>, FALSE, NotifyResult(response))
    /\ UNCHANGED <<sanity, appointments_json, local_calls>>

----------------------------------------------------------------------------
(* appointments.json and confirm_patient *)

\* the file: absent, holding a JSON list, or holding text json.load rejects
\* (zero bytes or the beginning of a list, as an interrupted json.dump leaves)
FileAbsent == [exists |-> FALSE, valid |-> FALSE, data |-> <<>>]

FileInvalid == [exists |-> TRUE, valid |-> FALSE, data |-> <<>>]

FileWith(data) == [exists |-> TRUE, valid |-> TRUE, data |-> data]

FileOk == [raised |-> FALSE, status_code |-> 0]

FileError == [raised |-> TRUE, status_code |-> 0]

\* the file operation that fails with OSError in one call, if any
FileFaults == {"none", "open_r", "open_w", "dump"}

\* the record appended to data
LocalRecord(patient_name, doctor_name, date, time) ==
    [patient |-> patient_name, doctor |-> doctor_name, date |-> date, time |-> time]

\* the for loop with date and time compared the wrong way round
DoctorIsBookedMutant(data, doctor_name, date, time) ==
    \E i \in 1..Len(data) :
        data[i].doctor = doctor_name /\ data[i].date = time /\ data[i].time = date

\* the for loop: some record of data has the doctor, date and time
DoctorIsBooked(data, doctor_name, date, time) ==
    \E i \in 1..Len(data) :
        data[i].doctor = doctor_name /\ data[i].date = date /\ data[i].time = time

\* the record put in front of the list
AppendedMutant(data, rec) == <<rec>> \o data

\* data.append(...)
Appended(data, rec) == Append(data, rec)

\* local_calls after one more call. The calls are kept as long as they are
\* calls for pairwise distinct (doctor, date, time) with no failing file
\* operation; after any other call the list is dropped (clean = FALSE).
Logged(log, args, fault) ==
    LET slot(a) == <<a[2], a[3], a[4]>>
        clean   == /\ log.clean
                   /\ fault = "none"
                   /\ \A i \in 1..Len(log.calls) : slot(log.calls[i]) # slot(args)
    IN  [clean |-> clean, calls |-> IF clean THEN Append(log.calls, args) ELSE <<>>]

confirm_patient(patient_name, doctor_name, date, time, fault) ==
    LET args   == <<patient_name, doctor_name, date, time>>
        f      == appointments_json
        reads  == IF ~f.exists THEN <<>>
                  ELSE IF fault = "open_r" THEN <<Op("open_r", FileError)>>
                  ELSE IF ~f.valid THEN <<Op("open_r", FileOk), Op("load", FileError)>>
                  ELSE <<Op("open_r", FileOk), Op("load", FileOk)>>
        data   == IF f.exists THEN f.data ELSE <<>>
        new    == Appended(data, LocalRecord(patient_name, doctor_name, date, time))
    IN  /\ UNCHANGED sanity
        /\ local_calls' = Logged(local_calls, args, fault)
        /\ IF f.exists /\ fault = "open_r"
           THEN /\ last' = Call("confirm_patient", args, reads, FALSE,
                                ConfirmFailedMsg("OSError"))
                /\ UNCHANGED appointments_json
           ELSE IF f.exists /\ ~f.valid
           THEN /\ last' = Call("confirm_patient", args, reads, FALSE,
                                ConfirmFailedMsg("JSONDecodeError"))
                /\ UNCHANGED appointments_json
           ELSE IF DoctorIsBooked(data, doctor_name, date, time)
           THEN /\ last' = Call("confirm_patient", args, reads, FALSE, DoctorBookedMsg)
                /\ UNCHANGED appointments_json
           ELSE IF fault = "open_w"
           THEN /\ last' = Call("confirm_patient", args,
                                reads \o <<Op("open_w", FileError)>>, FALSE,
                                ConfirmFailedMsg("OSError"))
                /\ UNCHANGED appointments_json
           ELSE IF fault = "dump"
           THEN \* open(file, "w") has truncated the file; the dump stops part-way
                /\ last' = Call("confirm_patient", args,
                                reads \o <<Op("open_w", FileOk), Op("dump", FileError)>>,
                                FALSE, ConfirmFailedMsg("OSError"))
                /\ appointments_json' = FileInvalid
           ELSE /\ last' = Call("confirm_patient", args,
                                reads \o <<Op("open_w", FileOk), Op("dump", FileOk)>>,
                                FALSE,
                                ConfirmedMsg(patient_name, doctor_name, date, time))
                /\ appointments_json' = FileWith(new)

----------------------------------------------------------------------------
(* Spec: the tools called one at a time *)

\* records the two stores hold
Stored == Len(sanity) + Len(appointments_json.data)

\* the calls that can add a record are explored while Room holds
Room == Stored < MaxRecords

\* the agent's session before the user has said anything
NoSession ==
    [phase |-> "Gathering", patient |-> "", doctor |-> "", date |-> "", time |-> "",
     heard |-> "", reply |-> ""]

\* no script run with a user input yet
NoTurn == [user_input |-> "", context |-> <<>>, given |-> <<>>, ran |-> FALSE, raised |-> FALSE]

\* no mapping handed out yet; `changed` records that some caller has
\* changed a mapping it was given
NotHanded == [held |-> FALSE, mapping |-> <<>>, changed |-> FALSE]

\* two browser sessions, each with its own agent run
Sessions == {1, 2}

\* a session that has made no tool call: where its call stands (pc), the
\* list it read (data), the operations made, whether its conflict check
\* found the slot free (passed), and the calls it has begun
Idle ==
    [pc |-> "idle", tool |-> "", args |-> <<>>, data |-> <<>>, ops |-> <<>>,
     passed |-> FALSE, raised |-> FALSE, result |-> NoMsg, calls |-> 0]

Init ==
    /\ sanity = <<>>
    /\ appointments_json \in {FileAbsent, FileWith(<<>>)}
    /\ last = [NoCall EXCEPT !.before.appointments_json = appointments_json]
    /\ local_calls = [clean |-> TRUE, calls |-> <<>>]
    /\ session = NoSession
    /\ attempt = <<>>
    /\ history = <<>>
    /\ turn = NoTurn
    /\ handed = NotHanded
    /\ running = [i \in Sessions |-> Idle]

CallSave ==
    \E p \in Patients, s \in Slots, check \in HttpOutcomes, response \in HttpOutcomes :
        /\ Room
        /\ save_appointment(p[1], p[2], s[1], s[2], s[3], check, response)
        /\ UNCHANGED <<session, attempt, elsewhere>>

CallNotify ==
    \E p \in Patients, s \in Slots, response \in HttpOutcomes :
        /\ send_doctor_request(p[1], s[1], s[2], s[3], response)
        /\ UNCHANGED <<session, attempt, elsewhere>>

CallConfirm ==
    \E p \in Patients, s \in Slots, fault \in FileFaults :
        /\ Room
        /\ confirm_patient(p[1], s[1], s[2], s[3], fault)
        /\ UNCHANGED <<session, attempt, elsewhere>>

Next == CallSave \/ CallNotify \/ CallConfirm

Spec == Init /\ [][Next]_vars

----------------------------------------------------------------------------
(* get_doctors and the check of a requested slot against it *)

get_doctors ==
    ("Dr. Khan" :>
        [specialty |-> "Dermatologist",
         availability |->
            ("Monday to Friday" :> ("Morning" :> "10:00 AM - 2:00 PM" @@
                                    "Evening" :> "7:00 PM - 10:00 PM"))]) @@
    ("Dr. Ahmed" :>
        [specialty |-> "Neurologist",
         availability |->
            ("Monday to Friday" :> ("Evening" :> "7:00 PM - 11:00 PM") @@
             "Saturday" :> ("Morning" :> "10:00 AM - 2:00 PM" @@
                            "Evening" :> "7:00 PM - 11:00 PM"))])

\* what a caller can make of the dict it was given: an entry deleted, or
\* the dict cleared
Tamperings(m) ==
    {[d \in DOMAIN m \ {x} |-> m[d]] : x \in DOMAIN m} \cup {[d \in {} |-> m[d]]}

\* one dict object, built once, returned by every call
SharedMappingMutant(h) == IF h.held THEN h.mapping ELSE get_doctors

\* the mapping a call returns when callers hold h from the calls before: the
\* return statement builds a new dict from the literal each time
ReturnedMapping(h) == get_doctors

CallGetDoctors ==
    /\ last' = Call("get_doctors", <<>>, <<>>, FALSE, ReturnedMapping(handed))
    /\ handed' = [held |-> TRUE, mapping |-> ReturnedMapping(handed),
                  changed |-> handed.changed]
    /\ UNCHANGED <<sanity, appointments_json, local_calls, session, attempt,
                   history, turn, running>>

\* the caller changes the mapping it holds
CallerChanges ==
    \E m \in Tamperings(handed.mapping) :
        /\ handed.held
        /\ handed.mapping # m
        /\ handed' = [handed EXCEPT !.mapping = m, !.changed = TRUE]
        /\ UNCHANGED <<sanity, appointments_json, last, local_calls, session, attempt,
                       history, turn, running>>

\* the sink tools called between the get_doctors calls, for one patient
DirectorySave ==
    \E s \in Slots, check \in HttpOutcomes, response \in HttpOutcomes :
        /\ Room
        /\ save_appointment("Ali", "ali@example.com", s[1], s[2], s[3], check, response)
        /\ UNCHANGED <<session, attempt, elsewhere>>

DirectoryNotify ==
    \E s \in Slots, response \in HttpOutcomes :
        /\ send_doctor_request("Ali", s[1], s[2], s[3], response)
        /\ UNCHANGED <<session, attempt, elsewhere>>

DirectoryConfirm ==
    \E s \in Slots, fault \in FileFaults :
        /\ Room
        /\ confirm_patient("Ali", s[1], s[2], s[3], fault)
        /\ UNCHANGED <<session, attempt, elsewhere>>

NextDirectory ==
    DirectorySave \/ DirectoryNotify \/ DirectoryConfirm \/ CallGetDoctors \/ CallerChanges

SpecDirectory == Init /\ [][NextDirectory]_vars

\* a clock string as <<hour, minute, half of the day>>
ClockParts(t) ==
    CASE t = "10:00 AM" -> <<10, 0, "AM">>
      [] t = "11:00 AM" -> <<11, 0, "AM">>
      [] t = "2:00 PM"  -> <<2, 0, "PM">>
      [] t = "3:00 PM"  -> <<3, 0, "PM">>
      [] t = "7:00 PM"  -> <<7, 0, "PM">>
      [] t = "8:00 PM"  -> <<8, 0, "PM">>
      [] t = "10:00 PM" -> <<10, 0, "PM">>
      [] t = "11:00 PM" -> <<11, 0, "PM">>

\* minutes after midnight of a 12-hour clock string
ClockMinutes(t) ==
    LET c == ClockParts(t)
    IN  ((c[1] % 12) + (IF c[3] = "PM" THEN 12 ELSE 0)) * 60 + c[2]

\* the two ends of a time-range string
RangeEnds(r) ==
    CASE r = "10:00 AM - 2:00 PM" -> <<"10:00 AM", "2:00 PM">>
      [] r = "7:00 PM - 10:00 PM" -> <<"7:00 PM", "10:00 PM">>
      [] r = "7:00 PM - 11:00 PM" -> <<"7:00 PM", "11:00 PM">>

\* the weekdays a day-group label of the directory stands for
GroupDays(group) ==
    CASE group = "Monday to Friday" ->
            {"Monday", "Tuesday", "Wednesday", "Thursday", "Friday"}
      [] OTHER -> {group}

\* "Doctor's name (must exist in doctor list)"
DoctorExists(doctor) == doctor \in DOMAIN get_doctors

\* "Appointment date (must match availability)"
DateMatches(doctor, date) ==
    /\ DoctorExists(doctor)
    /\ \E g \in DOMAIN get_doctors[doctor].availability : Weekday(date) \in GroupDays(g)

\* "Appointment time (must be in time range)"
TimeInRange(doctor, date, time) ==
    /\ DateMatches(doctor, date)
    /\ \E g \in DOMAIN get_doctors[doctor].availability :
          /\ Weekday(date) \in GroupDays(g)
          /\ \E period \in DOMAIN get_doctors[doctor].availability[g] :
                LET ends == RangeEnds(get_doctors[doctor].availability[g][period])
                IN  /\ ClockMinutes(ends[1]) <= ClockMinutes(time)
                    /\ ClockMinutes(time) <= ClockMinutes(ends[2])

----------------------------------------------------------------------------
(* The agent: the workflow its instructions prescribe *)

\* the details asked for, in the order of the instructions
Details == <<"patient", "doctor", "date", "time">>

\* the detail still missing that the agent asks for next ("step by step")
Asked(ses) ==
    IF ses.patient = "" THEN "patient"
    ELSE IF ses.doctor = "" THEN "doctor"
    ELSE IF ses.date = "" THEN "date"
    ELSE IF ses.time = "" THEN "time"
    ELSE "none"

\* what a user may answer when asked for a detail
Answers(detail) ==
    CASE detail = "patient" -> {p[1] : p \in Patients}
      [] detail = "doctor"  -> Doctors \cup {UnknownDoctor}
      [] detail = "date"    -> Dates
      [] detail = "time"    -> Times
      [] OTHER -> {}

\* the check with the time not compared with the schedule
AcceptedMutant(ses, detail, v) ==
    CASE detail = "patient" -> TRUE
      [] detail = "doctor"  -> DoctorExists(v)
      [] detail = "date"    -> DateMatches(ses.doctor, v)
      [] detail = "time"    -> TRUE
      [] OTHER -> FALSE

\* the agent's check of the answer against get_doctors
Accepted(ses, detail, v) ==
    CASE detail = "patient" -> TRUE
      [] detail = "doctor"  -> DoctorExists(v)
      [] detail = "date"    -> DateMatches(ses.doctor, v)
      [] detail = "time"    -> TimeInRange(ses.doctor, ses.date, v)
      [] OTHER -> FALSE

\* the session after the user's answer v to the detail asked for: an accepted
\* answer is kept, and the last one starts the commit ("After collecting all
\* data"); any other is explained and the detail asked for again
Heard(ses, v) ==
    LET detail == Asked(ses)
        kept   == [ses EXCEPT ![detail] = v, !.heard = "", !.reply = "ask"]
    IN  IF ~Accepted(ses, detail, v)
        THEN [ses EXCEPT !.heard = v, !.reply = "explain and ask again"]
        ELSE IF detail = "time"
        THEN [kept EXCEPT !.phase = "Committing", !.reply = ""]
        ELSE kept

\* one entry of `attempt`
Step(call) == [tool |-> call.tool, raised |-> call.raised, result |-> call.result]

\* the steps with the first two exchanged
NextToolMutant(done) ==
    CASE Len(done) = 0 -> "save_appointment"
      [] Len(done) = 1 -> "send_doctor_request"
      [] Len(done) = 2 -> "confirm_patient"
      [] OTHER -> "none"

\* the steps given up after a failed notification
NextToolStopsMutant(done) ==
    CASE Len(done) = 0 -> "send_doctor_request"
      [] Len(done) = 1 /\ done[1].result = WebhookOkMsg -> "save_appointment"
      [] Len(done) = 2 -> "confirm_patient"
      [] OTHER -> "none"

\* Step 1, Step 2, Step 3 of the instructions: the tool to call after the
\* calls made so far in this attempt, whatever they returned
NextTool(done) ==
    CASE Len(done) = 0 -> "send_doctor_request"
      [] Len(done) = 1 -> "save_appointment"
      [] Len(done) = 2 -> "confirm_patient"
      [] OTHER -> "none"

\* a user turn while details are gathered
UserTurn ==
    \E v \in Answers(Asked(session)) :
        /\ session.phase = "Gathering"
        /\ Asked(session) = "time" => Room
        /\ session' = Heard(session, v)
        /\ last' = IF Asked(session) = "patient" THEN last
                   ELSE Call("get_doctors", <<>>, <<>>, FALSE, get_doctors)
        /\ attempt' = <<>>
        /\ UNCHANGED <<sanity, appointments_json, local_calls, elsewhere>>

AgentNotify ==
    \E response \in HttpOutcomes :
        /\ session.phase = "Committing"
        /\ NextTool(attempt) = "send_doctor_request"
        /\ send_doctor_request(session.patient, session.doctor, session.date, session.time,
                               response)
        /\ attempt' = Append(attempt, Step(last'))
        /\ UNCHANGED <<session, elsewhere>>

\* The email is not among the details the instructions gather: any is passed.
\* When the function raises, function_tool hands the error to the model as the
\* tool's output and the run goes on with the next step.
AgentSave ==
    \E p \in Patients, check \in HttpOutcomes, response \in HttpOutcomes :
        /\ session.phase = "Committing"
        /\ NextTool(attempt) = "save_appointment"
        /\ save_appointment(session.patient, p[2], session.doctor, session.date,
                            session.time, check, response)
        /\ attempt' = Append(attempt, Step(last'))
        /\ UNCHANGED <<session, elsewhere>>

AgentConfirm ==
    \E fault \in FileFaults :
        /\ session.phase = "Committing"
        /\ NextTool(attempt) = "confirm_patient"
        /\ confirm_patient(session.patient, session.doctor, session.date, session.time, fault)
        /\ attempt' = Append(attempt, Step(last'))
        /\ UNCHANGED <<session, elsewhere>>

\* the final message of the attempt
AgentReply ==
    /\ session.phase = "Committing"
    /\ NextTool(attempt) = "none"
    /\ session' = [session EXCEPT !.phase = "Terminal", !.reply = "final message"]
    /\ UNCHANGED <<sanity, appointments_json, last, local_calls, attempt, elsewhere>>

\* back to gathering, for a new booking
NewBooking ==
    /\ session.phase = "Terminal"
    /\ session' = NoSession
    /\ attempt' = <<>>
    /\ UNCHANGED <<sanity, appointments_json, last, local_calls, elsewhere>>

NextAgent ==
    UserTurn \/ AgentNotify \/ AgentSave \/ AgentConfirm \/ AgentReply \/ NewBooking

SpecAgent == Init /\ [][NextAgent]_vars

----------------------------------------------------------------------------
(* SpecChat: the Streamlit script, run from top to bottom for each input *)

\* script runs with a user input are explored up to this many
MaxTurns == 4

\* what the user types into st.chat_input
UserTexts == {"I need a skin doctor", "Dr. Khan on Wednesday", "My name is Ali"}

\* what the agent's streamed tokens add up to
Responses == {"Which doctor would you like?", "Your appointment is booked."}

\* the output a pair carries until the response replaces it
Placeholder == "thinking..."

\* get_response(user_input): an async generator function, so the call runs
\* none of its body and returns an async generator object; the body would
\* give Runner.run_streamed the new text and nothing else
get_response(user_input) == [kind |-> "async_generator", input |-> <<user_input>>]

\* asyncio.run(main): runs a coroutine to its end; any other object is
\* refused with ValueError("a coroutine was expected, got ...")
asyncio_run(main) ==
    IF main.kind = "coroutine"
    THEN [raised |-> FALSE, error |-> ""]
    ELSE [raised |-> TRUE, error |-> "ValueError"]

\* the script run for one user input: the pair with the placeholder is
\* appended, then the for statement evaluates asyncio.run(...). When that
\* raises, the run ends there and the assignment to history[-1] is not reached.
ChatTurn ==
    \E user_input \in UserTexts :
        LET main     == get_response(user_input)
            r        == asyncio_run(main)
            appended == Append(history, <<user_input, Placeholder>>)
        IN  /\ Len(history) < MaxTurns
            /\ IF r.raised
               THEN /\ history' = appended
                    /\ turn' = [user_input |-> user_input, context |-> history,
                                given |-> main.input, ran |-> FALSE, raised |-> TRUE]
               ELSE \E full_response \in Responses :
                    /\ history' = [appended EXCEPT ![Len(appended)] =
                                                      <<user_input, full_response>>]
                    /\ turn' = [user_input |-> user_input, context |-> history,
                                given |-> main.input, ran |-> TRUE, raised |-> FALSE]
            /\ UNCHANGED <<sanity, appointments_json, last, local_calls, session, attempt,
                           handed, running>>

NextChat == ChatTurn

SpecChat == Init /\ [][NextChat]_vars

----------------------------------------------------------------------------
(* SpecRace: save_appointment and confirm_patient of two sessions, step by  *)
(* step. Each session's agent calls its tools one after the other; the      *)
(* calls of different sessions overlap freely. The conflict query is taken  *)
(* as answered with status 200 here; Spec covers the queries that fail.     *)

\* tool calls each session begins
MaxCalls == 2

\* the slots the two sessions compete for
RaceSlots == {s \in Slots : s[1] = "Dr. Khan" /\ s[2] = "2025-07-02"}

\* session 1 books for Ali, session 2 for Sara
RacePatient(i) == IF i = 1 THEN <<"Ali", "ali@example.com">> ELSE <<"Sara", "sara@example.com">>

\* the session can begin a call
CanCall(i) == running[i].pc \in {"idle", "done"} /\ running[i].calls < MaxCalls

\* the session's call has returned (or raised)
Finished(r, pc, op, raised, result) ==
    [r EXCEPT !.pc = pc, !.ops = Append(r.ops, op), !.raised = raised, !.result = result]

\* save_appointment up to the if statement: the query and the conflict check
RaceSaveQuery(i) ==
    \E s \in RaceSlots :
        LET p      == RacePatient(i)
            check  == Response(StatusOK)
            booked == SlotIsBooked(check, sanity, s[1], s[2], s[3])
        IN  /\ CanCall(i)
            /\ running' = [running EXCEPT ![i] =
                   [pc |-> IF booked THEN "done" ELSE "mutate",
                    tool |-> "save_appointment",
                    args |-> <<p[1], p[2], s[1], s[2], s[3]>>,
                    data |-> <<>>,
                    ops |-> <<Op("query", check)>>,
                    passed |-> ~booked,
                    raised |-> FALSE,
                    result |-> IF booked THEN SlotBookedMsg ELSE NoMsg,
                    calls |-> running[i].calls + 1]]
            /\ UNCHANGED <<sanity, appointments_json, last, local_calls, session, attempt,
                           history, turn, handed>>

\* save_appointment from the mutate request to the return
RaceSaveMutate(i) ==
    \E response \in HttpOutcomes :
        LET r == running[i]
            a == r.args
        IN  /\ r.pc = "mutate"
            /\ sanity' = Mutated(sanity, AppointmentDoc(a[1], a[2], a[3], a[4], a[5]), response)
            /\ running' = [running EXCEPT ![i] =
                   Finished(r, "done", Op("mutate", response), response.raised,
                            IF response.raised THEN NoMsg ELSE SaveResult(response))]
            /\ UNCHANGED <<appointments_json, last, local_calls, session, attempt,
                           history, turn, handed>>

\* confirm_patient up to data.append: the file read and the for loop
RaceConfirmRead(i) ==
    \E s \in RaceSlots, fault \in {"none", "open_r"} :
        LET p     == RacePatient(i)
            f     == appointments_json
            data  == IF f.exists THEN f.data ELSE <<>>
            begun == [Idle EXCEPT !.tool = "confirm_patient",
                                  !.args = <<p[1], s[1], s[2], s[3]>>,
                                  !.calls = running[i].calls + 1]
        IN  /\ CanCall(i)
            /\ fault = "open_r" => f.exists
            /\ running' = [running EXCEPT ![i] =
                   IF fault = "open_r"
                   THEN Finished(begun, "done", Op("open_r", FileError), FALSE,
                                 ConfirmFailedMsg("OSError"))
                   ELSE IF f.exists /\ ~f.valid
                   THEN Finished(begun, "done", Op("load", FileError), FALSE,
                                 ConfirmFailedMsg("JSONDecodeError"))
                   ELSE IF DoctorIsBooked(data, s[1], s[2], s[3])
                   THEN Finished(begun, "done", Op("load", FileOk), FALSE, DoctorBookedMsg)
                   ELSE [Finished(begun, "open_w", Op("load", FileOk), FALSE, NoMsg)
                            EXCEPT !.passed = TRUE,
                                   !.data = Appended(data, LocalRecord(p[1], s[1], s[2], s[3]))]]
            /\ UNCHANGED <<sanity, appointments_json, last, local_calls, session, attempt,
                           history, turn, handed>>

\* open(file, "w"): the file is cut to zero bytes
RaceConfirmOpen(i) ==
    \E fault \in {"none", "open_w"} :
        LET r == running[i]
        IN  /\ r.pc = "open_w"
            /\ IF fault = "open_w"
               THEN /\ running' = [running EXCEPT ![i] =
                          Finished(r, "done", Op("open_w", FileError), FALSE,
                                   ConfirmFailedMsg("OSError"))]
                    /\ UNCHANGED appointments_json
               ELSE /\ running' = [running EXCEPT ![i] =
                          Finished(r, "dump", Op("open_w", FileOk), FALSE, NoMsg)]
                    /\ appointments_json' = FileInvalid
            /\ UNCHANGED <<sanity, last, local_calls, session, attempt, history, turn, handed>>

\* what json.dump and the closing of the file leave. The text goes to the
\* start of the file: over text another session wrote since this session's
\* open it gives this session's list or, when that text was longer, text
\* json.load rejects. A failing write leaves the file cut, or as the other
\* session wrote it.
Dumped(f, data, fault) ==
    IF fault = "dump" THEN {FileInvalid, f}
    ELSE IF f.valid THEN {FileWith(data), FileInvalid}
    ELSE {FileWith(data)}

\* json.dump(data, f, indent=2), the end of the with block and the return
RaceConfirmDump(i) ==
    \E fault \in {"none", "dump"} :
        \E written \in Dumped(appointments_json, running[i].data, fault) :
            LET r == running[i]
                a == r.args
            IN  /\ r.pc = "dump"
                /\ appointments_json' = written
                /\ running' = [running EXCEPT ![i] =
                       IF fault = "dump"
                       THEN Finished(r, "done", Op("dump", FileError), FALSE,
                                     ConfirmFailedMsg("OSError"))
                       ELSE Finished(r, "done", Op("dump", FileOk), FALSE,
                                     ConfirmedMsg(a[1], a[2], a[3], a[4]))]
                /\ UNCHANGED <<sanity, last, local_calls, session, attempt,
                               history, turn, handed>>

NextRace ==
    \E i \in Sessions :
        \/ RaceSaveQuery(i)
        \/ RaceSaveMutate(i)
        \/ RaceConfirmRead(i)
        \/ RaceConfirmOpen(i)
        \/ RaceConfirmDump(i)

SpecRace == Init /\ [][NextRace]_vars

----------------------------------------------------------------------------
(* What the properties below read off a call *)

\* the (doctor, date, time) a call was made for
SaveSlot(args) == <<args[3], args[4], args[5]>>

LocalSlot(args) == <<args[2], args[3], args[4]>>

\* every request of the call was answered with status 200
AllAnswered200(ops) ==
    \A i \in 1..Len(ops) : ~ops[i].outcome.raised /\ ops[i].outcome.status_code = StatusOK

\* no file operation of the call failed
NoFileError(ops) == \A i \in 1..Len(ops) : ~ops[i].outcome.raised

\* the requests of the call sent to `endpoint`
OpsTo(ops, endpoint) == SelectSeq(ops, LAMBDA o : o.endpoint = endpoint)

\* no two documents of the dataset are for the same (doctorName, date, time)
RemoteUnique(docs) ==
    \A i, j \in 1..Len(docs) :
        (docs[i].doctorName = docs[j].doctorName /\ docs[i].date = docs[j].date
            /\ docs[i].time = docs[j].time) => i = j

\* no two records of the file are for the same (doctor, date, time)
LocalUnique(data) ==
    \A i, j \in 1..Len(data) :
        (data[i].doctor = data[j].doctor /\ data[i].date = data[j].date
            /\ data[i].time = data[j].time) => i = j

----------------------------------------------------------------------------
(* C1: two save_appointment calls in a row for the same (doctorName, date,  *)
(* time), the slot free before the first and every request of both         *)
(* answered with status 200: the first returns the saved result and adds   *)
(* exactly its document, with status "pending"; the second returns the     *)
(* slot-already-booked result, sends no mutate request and leaves the      *)
(* dataset as it is, whatever patient name and email it carries.           *)
C1_SecondSaveRejected ==
    [][ ( /\ last.tool = "save_appointment"
          /\ last'.tool = "save_appointment"
          /\ SaveSlot(last.args) = SaveSlot(last'.args)
          /\ AllAnswered200(last.ops)
          /\ AllAnswered200(last'.ops)
          /\ QueryMatches(last.before.sanity, last.args[3], last.args[4], last.args[5]) = <<>> )
        =>
        ( /\ ~last.raised
          /\ last.result = SanitySavedMsg
          /\ sanity = Append(last.before.sanity,
                             [patientName |-> last.args[1], email |-> last.args[2],
                              doctorName |-> last.args[3], date |-> last.args[4],
                              time |-> last.args[5], status |-> "pending"])
          /\ ~last'.raised
          /\ last'.result = SlotBookedMsg
          /\ OpsTo(last'.ops, "mutate") = <<>>
          /\ sanity' = sanity ) ]_vars

\* a second call, by another patient with another email, was rejected and
\* the dataset holds the one pending document of the first
C1_Witness ==
    /\ last.tool = "save_appointment"
    /\ last.result = SlotBookedMsg
    /\ AllAnswered200(last.ops)
    /\ Len(sanity) = 1
    /\ SaveSlot(last.args) = <<sanity[1].doctorName, sanity[1].date, sanity[1].time>>
    /\ sanity[1].status = "pending"
    /\ sanity[1].patientName # last.args[1]
    /\ sanity[1].email # last.args[2]

----------------------------------------------------------------------------
(* C2: starting from an absent file or an empty list, after N              *)
(* confirm_patient calls for pairwise distinct (doctor, date, time), none  *)
(* with a failing file operation, the file holds exactly N records: the    *)
(* record of each call, in the order of the calls.                         *)
C2_LocalLogHoldsCallsInOrder ==
    local_calls.clean =>
        /\ appointments_json.data =
              [i \in 1..Len(local_calls.calls) |->
                  [patient |-> local_calls.calls[i][1], doctor |-> local_calls.calls[i][2],
                   date |-> local_calls.calls[i][3], time |-> local_calls.calls[i][4]]]
        /\ Len(appointments_json.data) = Len(local_calls.calls)
        /\ local_calls.calls # <<>> => appointments_json.exists /\ appointments_json.valid

\* two such calls were made, for different slots
C2_Witness ==
    /\ local_calls.clean
    /\ Len(local_calls.calls) = 2
    /\ Len(appointments_json.data) = 2
    /\ last.tool = "confirm_patient"

----------------------------------------------------------------------------
(* C3: a confirm_patient call for a (doctor, date, time) that a record of   *)
(* the file already has, the file being read without error, returns the    *)
(* already-booked result and leaves the file exactly as it was, whatever   *)
(* the patient name.                                                       *)
C3_DuplicateLeavesLogUnchanged ==
    ( /\ last.tool = "confirm_patient"
      /\ last.before.appointments_json.valid
      /\ OpsTo(last.ops, "open_r") # <<>> /\ NoFileError(OpsTo(last.ops, "open_r"))
      /\ \E i \in 1..Len(last.before.appointments_json.data) :
            LET a == last.before.appointments_json.data[i]
            IN  <<a.doctor, a.date, a.time>> = LocalSlot(last.args) )
    =>
    ( /\ ~last.raised
      /\ last.result = DoctorBookedMsg
      /\ appointments_json = last.before.appointments_json )

\* a duplicate call by another patient was rejected
C3_Witness ==
    /\ last.tool = "confirm_patient"
    /\ last.result = DoctorBookedMsg
    /\ Len(appointments_json.data) = 1
    /\ appointments_json.data[1].patient # last.args[1]
    /\ <<appointments_json.data[1].doctor, appointments_json.data[1].date,
         appointments_json.data[1].time>> = LocalSlot(last.args)

----------------------------------------------------------------------------
(* C4: with the tools called one at a time, after any calls and any        *)
(* outcome of each network or file operation, the dataset holds at most    *)
(* one document per (doctorName, date, time) and the file at most one      *)
(* record per (doctor, date, time).                                        *)
C4_PerSinkUnique ==
    /\ RemoteUnique(sanity)
    /\ LocalUnique(appointments_json.data)

----------------------------------------------------------------------------
(* What the properties of the agent read off its attempt *)

SinkTools == {"send_doctor_request", "save_appointment", "confirm_patient"}

\* the tools in the order the instructions give them
Workflow == <<"send_doctor_request", "save_appointment", "confirm_patient">>

\* the (doctor, date, time) and the patient a sink call was made with
CallSlot(call) ==
    IF call.tool = "save_appointment" THEN SaveSlot(call.args) ELSE LocalSlot(call.args)

----------------------------------------------------------------------------
----------------------------------------------------------------------------
(* C6: in an attempt where save_appointment returned the                   *)
(* slot-already-booked result, confirm_patient is not called and the file  *)
(* gains no record.                                                        *)
C6_RejectionIsTerminal ==
    \A i \in 1..Len(attempt) :
        (attempt[i].tool = "save_appointment" /\ attempt[i].result = SlotBookedMsg) =>
            /\ \A j \in (i + 1)..Len(attempt) : attempt[j].tool # "confirm_patient"
            /\ last.tool = "confirm_patient" =>
                  appointments_json = last.before.appointments_json

----------------------------------------------------------------------------
----------------------------------------------------------------------------
----------------------------------------------------------------------------
(* C9: send_doctor_request never raises: for every outcome of its webhook  *)
(* request it returns a result string, the success string only for status  *)
(* 200 and a failure string otherwise, and it changes neither the dataset  *)
(* nor the file.                                                           *)
C9_NotifyNeverRaises ==
    last.tool = "send_doctor_request" =>
        /\ ~last.raised
        /\ Len(last.ops) = 1
        /\ last.result \in {WebhookOkMsg, WebhookErrorMsg}
                             \cup {WebhookFailedMsg(c) : c \in StatusCodes \ {StatusOK}}
        /\ last.result = WebhookOkMsg
              <=> (~last.ops[1].outcome.raised /\ last.ops[1].outcome.status_code = StatusOK)
        /\ sanity = last.before.sanity
        /\ appointments_json = last.before.appointments_json

\* the webhook request failed while both stores held a record
C9_Witness ==
    /\ last.tool = "send_doctor_request"
    /\ last.ops[1].outcome.raised
    /\ last.result = WebhookErrorMsg
    /\ sanity # <<>>
    /\ appointments_json.data # <<>>

----------------------------------------------------------------------------
(* C10: save_appointment returns the saved result if and only if the       *)
(* mutate request was answered with status 200, and for every other       *)
(* outcome of the query or the mutate request (another status, a failure   *)
(* of the transport) it returns a failure result instead of raising.       *)
C10_SaveReturnsResult ==
    last.tool = "save_appointment" =>
        /\ ~last.raised
        /\ last.result \in {SanitySavedMsg, SanityFailedMsg, SlotBookedMsg}
        /\ last.result = SanitySavedMsg
              <=> /\ OpsTo(last.ops, "mutate") # <<>>
                  /\ AllAnswered200(OpsTo(last.ops, "mutate"))

----------------------------------------------------------------------------
(* C11: when the file cannot be read, parsed or written, confirm_patient   *)
(* returns a failure result (it neither raises nor reports success) and    *)
(* the records in the file are the same as before the call.                *)
C11_LocalFailureKeepsRecords ==
    (last.tool = "confirm_patient" /\ ~NoFileError(last.ops)) =>
        /\ ~last.raised
        /\ last.result \in {ConfirmFailedMsg("OSError"), ConfirmFailedMsg("JSONDecodeError")}
        /\ {appointments_json.data[i] : i \in 1..Len(appointments_json.data)} =
              {last.before.appointments_json.data[i] :
                  i \in 1..Len(last.before.appointments_json.data)}

----------------------------------------------------------------------------
\* the transcript as a run's input: the inputs and outputs of the earlier
\* turns in order, then the new text
RECURSIVE Conversation(_, _)
Conversation(pairs, text) ==
    IF pairs = <<>> THEN <<text>>
    ELSE <<Head(pairs)[1], Head(pairs)[2]>> \o Conversation(Tail(pairs), text)

(* C12: on every user turn the agent is run, and the input of the run is   *)
(* the session's conversation so far (the inputs and outputs of all        *)
(* earlier turns) followed by the new user text.                           *)
C12_RunGetsConversation ==
    turn.user_input # "" =>
        /\ turn.ran
        /\ turn.given = Conversation(turn.context, turn.user_input)

----------------------------------------------------------------------------
(* C13: the transcript starts empty and has one pair per turn, in turn     *)
(* order; once the script run of a turn is over, no pair of the transcript *)
(* carries the placeholder output: the last pair holds the full response.  *)
C13_NoPlaceholderLeft ==
    /\ turn.user_input = "" => history = <<>>
    /\ turn.user_input # "" =>
          /\ history # <<>>
          /\ SubSeq(history, 1, Len(history) - 1) = turn.context
          /\ history[Len(history)][1] = turn.user_input
    /\ \A i \in 1..Len(history) : history[i][2] # Placeholder

----------------------------------------------------------------------------
(* C14: every get_doctors call returns the mapping of Dr. Khan and         *)
(* Dr. Ahmed with their specialties and availability, whatever tool calls  *)
(* were made before it and whatever callers did to the mappings earlier    *)
(* calls returned.                                                         *)
C14_DirectoryFixed ==
    last.tool = "get_doctors" =>
        /\ ~last.raised
        /\ DOMAIN last.result = {"Dr. Khan", "Dr. Ahmed"}
        /\ last.result["Dr. Khan"].specialty = "Dermatologist"
        /\ last.result["Dr. Ahmed"].specialty = "Neurologist"
        /\ DOMAIN last.result["Dr. Khan"].availability = {"Monday to Friday"}
        /\ DOMAIN last.result["Dr. Ahmed"].availability = {"Monday to Friday", "Saturday"}
        /\ last.result = get_doctors

\* a call made after both stores received a record and after a caller
\* changed the mapping of an earlier call
C14_Witness ==
    /\ last.tool = "get_doctors"
    /\ handed.changed
    /\ handed.mapping = last.result
    /\ sanity # <<>>
    /\ appointments_json.data # <<>>

----------------------------------------------------------------------------
\* the call wrote: its last operation is `endpoint`, and it succeeded
Wrote(r, endpoint) ==
    /\ r.pc = "done"
    /\ r.ops[Len(r.ops)].endpoint = endpoint
    /\ ~r.ops[Len(r.ops)].outcome.raised
    /\ endpoint = "mutate" => r.ops[Len(r.ops)].outcome.status_code = StatusOK

\* the records of the file for a (doctor, date, time)
LocalMatches(data, slot) ==
    SelectSeq(data, LAMBDA rec : <<rec.doctor, rec.date, rec.time>> = slot)

(* C15: when the calls of two sessions to the same sink tool for the same  *)
(* (doctor, date, time) have both passed the conflict check, which each    *)
(* does only when it checked before the other wrote, each call whose write *)
(* succeeds returns the success result: two save_appointment calls leave   *)
(* two documents for the slot in the dataset, and two confirm_patient      *)
(* calls both return the confirmation, the file holding a record of at     *)
(* most one of them.                                                       *)
C15_BothPassBothSucceed ==
    LET a == running[1]
        b == running[2]
    IN  /\ ( /\ a.tool = "save_appointment" /\ b.tool = "save_appointment"
             /\ a.passed /\ b.passed
             /\ SaveSlot(a.args) = SaveSlot(b.args) )
           => /\ \A r \in {a, b} : Wrote(r, "mutate") => r.result = SanitySavedMsg
              /\ (Wrote(a, "mutate") /\ Wrote(b, "mutate"))
                    => Len(QueryMatches(sanity, a.args[3], a.args[4], a.args[5])) = 2
        /\ ( /\ a.tool = "confirm_patient" /\ b.tool = "confirm_patient"
             /\ a.passed /\ b.passed
             /\ LocalSlot(a.args) = LocalSlot(b.args) )
           => /\ \A r \in {a, b} :
                    Wrote(r, "dump") =>
                        r.result = ConfirmedMsg(r.args[1], r.args[2], r.args[3], r.args[4])
              /\ Len(LocalMatches(appointments_json.data, LocalSlot(a.args))) <= 1

\* the two sessions raced twice for one slot, free at the start: their
\* save_appointment calls left two documents for it, and their
\* confirm_patient calls have both returned the confirmation
C15_Witness ==
    LET a == running[1]
        b == running[2]
    IN  /\ a.tool = "confirm_patient" /\ b.tool = "confirm_patient"
        /\ a.passed /\ b.passed
        /\ LocalSlot(a.args) = LocalSlot(b.args)
        /\ Wrote(a, "dump") /\ Wrote(b, "dump")
        /\ a.result = ConfirmedMsg("Ali", a.args[2], a.args[3], a.args[4])
        /\ b.result = ConfirmedMsg("Sara", a.args[2], a.args[3], a.args[4])
        /\ Len(QueryMatches(sanity, a.args[2], a.args[3], a.args[4])) = 2
        /\ sanity[1].patientName # sanity[2].patientName

----------------------------------------------------------------------------
(* C16: a record a sink call wrote stays in the sink's storage: whenever   *)
(* no session is in the middle of rewriting the file, the record of every  *)
(* confirm_patient call that returned the confirmation is in the file, and *)
(* the document of every save_appointment call that returned the saved     *)
(* result is in the dataset, whatever calls of the other session overlapped *)
(* or followed.                                                            *)
C16_WrittenRecordsStay ==
    \A i \in Sessions :
        LET r == running[i]
        IN  /\ (r.tool = "save_appointment" /\ r.pc = "done" /\ r.result = SanitySavedMsg)
                  => \E k \in 1..Len(sanity) :
                        sanity[k] = AppointmentDoc(r.args[1], r.args[2], r.args[3],
                                                   r.args[4], r.args[5])
            /\ ( /\ r.tool = "confirm_patient" /\ r.pc = "done"
                 /\ r.result = ConfirmedMsg(r.args[1], r.args[2], r.args[3], r.args[4])
                 /\ \A j \in Sessions : running[j].pc # "dump" )
                  => \E k \in 1..Len(appointments_json.data) :
                        appointments_json.data[k] =
                            LocalRecord(r.args[1], r.args[2], r.args[3], r.args[4])

----------------------------------------------------------------------------
(* C17: from the moment a session's first call, a confirm_patient call,   *)
(* has passed the for loop, and as long as the other session has made no   *)
(* confirm_patient call, the file holds either the complete list from      *)
(* before the call or that list with the call's record appended: it is     *)
(* never empty or partial.                                                 *)
C17_RewriteIsAtomic ==
    \A i \in Sessions :
        LET r == running[i]
            o == running[3 - i]
        IN  ( /\ r.tool = "confirm_patient"
              /\ r.passed
              /\ r.calls = 1
              /\ o.tool # "confirm_patient" /\ o.calls <= 1 )
            => \/ appointments_json = FileWith(r.data)
               \/ appointments_json = FileWith(SubSeq(r.data, 1, Len(r.data) - 1))
               \/ /\ appointments_json = FileAbsent
                  /\ Len(r.data) = 1

----------------------------------------------------------------------------
\* some record of the store is for the (doctor, date, time)
HeldRemotely(docs, slot) == QueryMatches(docs, slot[1], slot[2], slot[3]) # <<>>

HeldLocally(f, slot) == LocalMatches(f.data, slot) # <<>>

(* C18: a record one sink holds for a slot for which the other sink holds  *)
(* none (one of the two writes of a booking attempt failed) is not removed *)
(* by any later action: the slot stays held by the one sink.               *)
C18_LoneRecordStays ==
    [][\A slot \in Slots :
          /\ (HeldRemotely(sanity, slot) /\ ~HeldLocally(appointments_json, slot))
                => HeldRemotely(sanity', slot)
          /\ (HeldLocally(appointments_json, slot) /\ ~HeldRemotely(sanity, slot))
                => HeldLocally(appointments_json', slot)]_vars

----------------------------------------------------------------------------
(* C19: save_appointment returns the slot-already-booked result, without   *)
(* sending a mutate request, exactly when the query was answered with      *)
(* status 200 and a non-empty result; for every other answer to the query, *)
(* a status other than 200 included, it takes the slot as free and sends   *)
(* exactly one mutate request, creating a document with status "pending".  *)
C19_ConflictCheckOnlyOn200 ==
    ( /\ last.tool = "save_appointment"
      /\ ~last.ops[1].outcome.raised )
    =>
    LET booked == /\ last.ops[1].outcome.status_code = 200
                  /\ \E i \in 1..Len(last.before.sanity) :
                        <<last.before.sanity[i].doctorName, last.before.sanity[i].date,
                          last.before.sanity[i].time>> = SaveSlot(last.args)
        sent   == OpsTo(last.ops, "mutate")
    IN  /\ last.ops[1].endpoint = "query"
        /\ booked => /\ last.result = SlotBookedMsg
                     /\ sent = <<>>
                     /\ sanity = last.before.sanity
        /\ ~booked => /\ last.result # SlotBookedMsg
                      /\ Len(sent) = 1
                      /\ (~sent[1].outcome.raised /\ sent[1].outcome.status_code = 200)
                            => sanity = Append(last.before.sanity,
                                   [patientName |-> last.args[1], email |-> last.args[2],
                                    doctorName |-> last.args[3], date |-> last.args[4],
                                    time |-> last.args[5], status |-> "pending"])
                      /\ ~(~sent[1].outcome.raised /\ sent[1].outcome.status_code = 200)
                            => sanity = last.before.sanity

\* the query for a slot the dataset had a document for was answered with
\* status 500, and a second document for the slot was created
C19_Witness ==
    /\ last.tool = "save_appointment"
    /\ ~last.ops[1].outcome.raised
    /\ last.ops[1].outcome.status_code = 500
    /\ Len(last.before.sanity) = 1
    /\ <<last.before.sanity[1].doctorName, last.before.sanity[1].date,
         last.before.sanity[1].time>> = SaveSlot(last.args)
    /\ Len(OpsTo(last.ops, "mutate")) = 1
    /\ Len(sanity) = 2
    /\ sanity[2].status = "pending"

====
